---- MODULE Spec2Model ----
(***************************************************************************)
(* Model of the ANPR pipeline of backend/anpr.py: text normalisation and   *)
(* validation, duplicate-region filtering, per-frame processing, result    *)
(* aggregation and the process_video loop.                                 *)
(*                                                                         *)
(* Strings are sequences of one-character strings.  Confidences are        *)
(* integers in hundredths (0.85 is 85).  A mean is kept as the exact       *)
(* fraction <<sum, count>>.                                                *)
(***************************************************************************)
EXTENDS Integers, Sequences, FiniteSets, TLC

VARIABLES
    text,            \* argument of the text function under test
    outs,            \* successive outputs of _clean_plate_text, first call first
    valid,           \* <<result>> of _validate_plate_text(text), <<>> before the call
    cascade_boxes,   \* rectangles returned by the cascade classifiers for one frame
    contour_rects,   \* bounding rectangles of the contours of one frame
    plates_out,      \* <<result>> of _detect_plates_multi_method, <<>> before the call
    agg_in,          \* argument of _post_process_results
    agg_out,         \* <<result>> of _post_process_results, <<>> before the call
    video,           \* the video file handed to process_video
    pc,              \* position of process_video
    frame_nmr,       \* process_video local
    processed_frames,\* process_video local
    results,         \* process_video local: Detections accumulated so far
    readings,        \* history: every reading the text engine returned, with its frame
    file_exists,     \* whether the video file is still on disk
    ret,             \* <<value>> returned by process_video, <<>> before it returns
    log,             \* the entries written to the logger, first one first
    handed,          \* history: the frames handed to _process_frame, with timestamp
    faults,          \* history: the recoverable errors met, with frame and region
    instance,        \* the fields of the ANPR instance shared by the worker
    calls            \* the locals of each process_video call running on it

vars == <<text, outs, valid, cascade_boxes, contour_rects, plates_out,
          agg_in, agg_out, video, pc, frame_nmr, processed_frames, results,
          readings, file_exists, ret, log, handed, faults, instance, calls>>

textVars  == <<text, outs, valid>>
nmsVars   == <<cascade_boxes, contour_rects, plates_out>>
aggVars   == <<agg_in, agg_out>>
videoVars == <<video, pc, frame_nmr, processed_frames, results, readings,
               file_exists, ret, log, handed, faults>>
workerVars == <<instance, calls>>

Range(s) == {s[i] : i \in 1..Len(s)}

SeqsUpTo(S, n) == UNION {[1..k -> S] : k \in 0..n}

(***************************************************************************)
(* Characters                                                              *)
(***************************************************************************)
UpperCase == <<"A","B","C","D","E","F","G","H","I","J","K","L","M",
               "N","O","P","Q","R","S","T","U","V","W","X","Y","Z">>
LowerCase == <<"a","b","c","d","e","f","g","h","i","j","k","l","m",
               "n","o","p","q","r","s","t","u","v","w","x","y","z">>
Letters == Range(UpperCase)
Digits  == {"0","1","2","3","4","5","6","7","8","9"}
Alnum   == Letters \cup Digits

\* str.upper() on one character
UpperChar(c) ==
    IF \E i \in 1..Len(LowerCase) : LowerCase[i] = c
    THEN UpperCase[CHOOSE i \in 1..Len(LowerCase) : LowerCase[i] = c]
    ELSE c

Upper(s) == [i \in 1..Len(s) |-> UpperChar(s[i])]

\* re.sub(r'[^A-Z0-9]', '', s)
IsAlnum(c) == c \in Alnum
StripNonAlnum(s) == SelectSeq(s, IsAlnum)

\* str.replace(old, new) for one-character old and new
Replace(s, old, new) == [i \in 1..Len(s) |-> IF s[i] = old THEN new ELSE s[i]]

(***************************************************************************)
(* _validate_plate_text                                                    *)
(***************************************************************************)
\* A pattern is a sequence of pieces <<character class, min, max>>, anchored
\* with ^ and $.
plate_patterns ==
    << << <<Alnum, 2, 3>>, <<Alnum, 2, 4>> >>,
       << <<Letters, 1, 3>>, <<Digits, 3, 4>> >>,
       << <<Digits, 1, 3>>, <<Letters, 2, 3>>, <<Digits, 1, 4>> >> >>

MinLen == 3
MaxLen == 8

\* re.match of pieces k.. of pattern p against s from position i; the final $
\* matches at the end of s or just before a trailing newline.
RECURSIVE MatchFrom(_, _, _, _)
MatchFrom(p, k, s, i) ==
    IF k > Len(p)
    THEN \/ i = Len(s) + 1
         \/ i = Len(s) /\ s[i] = "\n"
    ELSE \E n \in p[k][2]..p[k][3] :
            /\ i + n - 1 <= Len(s)
            /\ \A j \in i..(i + n - 1) : s[j] \in p[k][1]
            /\ MatchFrom(p, k + 1, s, i + n)

ReMatch(p, s) == MatchFrom(p, 1, s, 1)

ValidateNoUpperBound(t) ==
    IF t = <<>> \/ Len(t) < MinLen
    THEN FALSE
    ELSE IF \E k \in 1..Len(plate_patterns) : ReMatch(plate_patterns[k], t)
         THEN TRUE
         ELSE /\ \E i \in 1..Len(t) : t[i] \in Letters
              /\ \E i \in 1..Len(t) : t[i] \in Digits

ValidateFallbackOnly(t) ==
    IF t = <<>> \/ Len(t) < MinLen \/ Len(t) > MaxLen
    THEN FALSE
    ELSE /\ \E i \in 1..Len(t) : t[i] \in Letters
         /\ \E i \in 1..Len(t) : t[i] \in Digits

_validate_plate_text(t) ==
    IF t = <<>> \/ Len(t) < MinLen \/ Len(t) > MaxLen
    THEN FALSE
    ELSE IF \E k \in 1..Len(plate_patterns) : ReMatch(plate_patterns[k], t)
         THEN TRUE
         ELSE /\ \E i \in 1..Len(t) : t[i] \in Letters
              /\ \E i \in 1..Len(t) : t[i] \in Digits

(***************************************************************************)
(* _clean_plate_text                                                       *)
(***************************************************************************)
corrections == << <<"O","0">>, <<"I","1">>, <<"S","5">>,
                  <<"B","8">>, <<"Z","2">>, <<"G","6">> >>

\* The same loop without the break: later entries go on rewriting.
RECURSIVE ApplyCorrectionsNoBreak(_, _)
ApplyCorrectionsNoBreak(cleaned, k) ==
    IF k > Len(corrections)
    THEN cleaned
    ELSE LET old == corrections[k][1]
             new == corrections[k][2]
         IN  IF old \in Range(cleaned)
             THEN LET corrected == Replace(cleaned, old, new)
                  IN  IF _validate_plate_text(corrected)
                      THEN ApplyCorrectionsNoBreak(corrected, k + 1)
                      ELSE ApplyCorrectionsNoBreak(cleaned, k + 1)
             ELSE ApplyCorrectionsNoBreak(cleaned, k + 1)

\* The loop over corrections.items(), from entry k on.
RECURSIVE ApplyCorrections(_, _)
ApplyCorrections(cleaned, k) ==
    IF k > Len(corrections)
    THEN cleaned
    ELSE LET old == corrections[k][1]
             new == corrections[k][2]
         IN  IF old \in Range(cleaned)
             THEN LET corrected == Replace(cleaned, old, new)
                  IN  IF _validate_plate_text(corrected)
                      THEN corrected
                      ELSE ApplyCorrections(cleaned, k + 1)
             ELSE ApplyCorrections(cleaned, k + 1)

_clean_plate_text(t) ==
    IF t = <<>>
    THEN <<>>
    ELSE ApplyCorrections(StripNonAlnum(Upper(t)), 1)

(***************************************************************************)
(* Region detection and _filter_duplicate_plates                           *)
(* A plate is <<x, y, w, h, confidence>>.                                  *)
(***************************************************************************)
CascadeConfidence == 70
ContourConfidence == 60
ScoreThreshold    == 50
NmsThreshold      == 40

\* Area of the intersection of two boxes read as <<x, y, width, height>>.
Max2(a, b) == IF a >= b THEN a ELSE b
Min2(a, b) == IF a <= b THEN a ELSE b

RectArea(r) == r[3] * r[4]

IntersectionArea(a, b) ==
    LET iw == Min2(a[1] + a[3], b[1] + b[3]) - Max2(a[1], b[1])
        ih == Min2(a[2] + a[4], b[2] + b[4]) - Max2(a[2], b[2])
    IN  IF iw > 0 /\ ih > 0 THEN iw * ih ELSE 0

\* 1 - jaccardDistance(a, b) > threshold, with the threshold in hundredths.
OverlapExceeds(a, b, threshold) ==
    LET inter == IntersectionArea(a, b)
        union == RectArea(a) + RectArea(b) - inter
    IN  IF RectArea(a) + RectArea(b) <= 0
        THEN 100 > threshold
        ELSE 100 * inter > threshold * union

\* Positions of a sequence of scores, highest score first, equal scores in
\* their original order (stable sort).
RECURSIVE InsertByScore(_, _, _)
InsertByScore(sorted, i, scores) ==
    IF sorted = <<>>
    THEN <<i>>
    ELSE IF scores[Head(sorted)] >= scores[i]
         THEN <<Head(sorted)>> \o InsertByScore(Tail(sorted), i, scores)
         ELSE <<i>> \o sorted

RECURSIVE SortedFrom(_, _)
SortedFrom(scores, n) ==
    IF n = 0 THEN <<>>
    ELSE InsertByScore(SortedFrom(scores, n - 1), n, scores)

ScoreOrder(scores) == SortedFrom(scores, Len(scores))

\* The suppression pass over the ordered candidates, from position k on.
RECURSIVE Suppress(_, _, _, _, _)
Suppress(bboxes, order, k, kept, nms_threshold) ==
    IF k > Len(order)
    THEN kept
    ELSE LET idx  == order[k]
             keep == \A j \in 1..Len(kept) :
                        ~OverlapExceeds(bboxes[idx], bboxes[kept[j]], nms_threshold)
         IN  Suppress(bboxes, order, k + 1,
                      IF keep THEN Append(kept, idx) ELSE kept, nms_threshold)

\* cv2.dnn.NMSBoxes(bboxes, scores, score_threshold, nms_threshold): the
\* indices kept; each bbox is read as <<x, y, width, height>>.
NMSBoxes(bboxes, scores, score_threshold, nms_threshold) ==
    LET order == SelectSeq(ScoreOrder(scores),
                           LAMBDA i : scores[i] > score_threshold)
    IN  Suppress(bboxes, order, 1, <<>>, nms_threshold)

_filter_duplicate_plates(plates) ==
    IF plates = <<>>
    THEN <<>>
    ELSE LET boxes == [i \in 1..Len(plates) |->
                          <<plates[i][1], plates[i][2],
                            plates[i][1] + plates[i][3],
                            plates[i][2] + plates[i][4]>>]
             confidences == [i \in 1..Len(plates) |-> plates[i][5]]
             indices == NMSBoxes(boxes, confidences, ScoreThreshold, NmsThreshold)
         IN  [n \in 1..Len(indices) |->
                 LET b == boxes[indices[n]]
                 IN  <<b[1], b[2], b[3] - b[1], b[4] - b[2],
                       confidences[indices[n]]>>]

\* The size and shape test of _detect_plates_by_contours on one bounding
\* rectangle <<x, y, w, h>>: 2.0 <= w/h <= 6.0, 1000 <= w*h <= 50000,
\* w >= 50, h >= 20.
PlateShaped(r) ==
    /\ r[4] > 0
    /\ 2 * r[4] <= r[3]
    /\ r[3] <= 6 * r[4]
    /\ 1000 <= r[3] * r[4]
    /\ r[3] * r[4] <= 50000
    /\ r[3] >= 50
    /\ r[4] >= 20

_detect_plates_by_contours(rects) ==
    LET accepted == SelectSeq(rects, PlateShaped)
    IN  [i \in 1..Len(accepted) |->
            <<accepted[i][1], accepted[i][2], accepted[i][3], accepted[i][4],
              ContourConfidence>>]

\* The pooled candidates: cascade boxes first, contour plates after.
AllPlates(boxes, rects) ==
    [i \in 1..Len(boxes) |->
        <<boxes[i][1], boxes[i][2], boxes[i][3], boxes[i][4], CascadeConfidence>>]
    \o _detect_plates_by_contours(rects)

_detect_plates_multi_method(boxes, rects) ==
    _filter_duplicate_plates(AllPlates(boxes, rects))

(***************************************************************************)
(* _post_process_results                                                   *)
(* A Detection is a record with the fields of anpr.py:152-159; the record  *)
(* of a group adds occurrence_count and avg_confidence = <<sum, count>>.   *)
(***************************************************************************)
\* plate_groups.keys(): the distinct plate texts in first-seen order.
RECURSIVE GroupKeys(_)
GroupKeys(rs) ==
    IF rs = <<>>
    THEN <<>>
    ELSE LET front == GroupKeys(SubSeq(rs, 1, Len(rs) - 1))
             t     == rs[Len(rs)].plate_text
         IN  IF t \in Range(front) THEN front ELSE Append(front, t)

\* plate_groups[t]: the detections of text t in arrival order.
Group(rs, t) == SelectSeq(rs, LAMBDA d : d.plate_text = t)

\* max(detections, key=confidence): the first detection of maximal confidence.
BestDetection(ds) ==
    ds[CHOOSE i \in 1..Len(ds) :
          /\ \A j \in 1..Len(ds) : ds[j].confidence <= ds[i].confidence
          /\ \A j \in 1..(i - 1) : ds[j].confidence < ds[i].confidence]

RECURSIVE SumConfidence(_)
SumConfidence(ds) ==
    IF ds = <<>> THEN 0
    ELSE ds[1].confidence + SumConfidence(Tail(ds))

Annotate(d, count, avg) ==
    [plate_text           |-> d.plate_text,
     confidence           |-> d.confidence,
     frame                |-> d.frame,
     timestamp            |-> d.timestamp,
     bounding_box         |-> d.bounding_box,
     detection_confidence |-> d.detection_confidence,
     occurrence_count     |-> count,
     avg_confidence       |-> avg]

\* Order of two means kept as fractions <<sum, count>>.
AvgGeq(a, b) == a[1] * b[2] >= b[1] * a[2]

\* final_results.sort(key=avg_confidence, reverse=True): stable, highest first.
RECURSIVE InsertByAvg(_, _)
InsertByAvg(sorted, r) ==
    IF sorted = <<>>
    THEN <<r>>
    ELSE IF AvgGeq(Head(sorted).avg_confidence, r.avg_confidence)
         THEN <<Head(sorted)>> \o InsertByAvg(Tail(sorted), r)
         ELSE <<r>> \o sorted

RECURSIVE SortByAvgDescFrom(_, _)
SortByAvgDescFrom(rs, n) ==
    IF n = 0 THEN <<>>
    ELSE InsertByAvg(SortByAvgDescFrom(rs, n - 1), rs[n])

NoSort(rs) == rs

SortByAvgDesc(rs) == SortByAvgDescFrom(rs, Len(rs))

\* The same aggregation counting the frames of a group, not its members.
PostProcessCountFrames(rs) ==
    IF rs = <<>>
    THEN <<>>
    ELSE LET keys == GroupKeys(rs)
             final_results ==
                 [k \in 1..Len(keys) |->
                     LET detections == Group(rs, keys[k])
                     IN  Annotate(BestDetection(detections),
                                  Cardinality({detections[i].frame :
                                                  i \in 1..Len(detections)}),
                                  <<SumConfidence(detections), Len(detections)>>)]
         IN  SortByAvgDesc(final_results)

_post_process_results(rs) ==
    IF rs = <<>>
    THEN <<>>
    ELSE LET keys == GroupKeys(rs)
             final_results ==
                 [k \in 1..Len(keys) |->
                     LET detections == Group(rs, keys[k])
                     IN  Annotate(BestDetection(detections),
                                  Len(detections),
                                  <<SumConfidence(detections), Len(detections)>>)]
         IN  SortByAvgDesc(final_results)

(***************************************************************************)
(* _calculate_confidence_summary                                           *)
(***************************************************************************)
HighConfidence == 80

\* sum(confidences) over means kept as fractions.
RECURSIVE FracSum(_)
FracSum(cs) ==
    IF cs = <<>> THEN <<0, 1>>
    ELSE LET rest == FracSum(Tail(cs))
         IN  <<cs[1][1] * rest[2] + rest[1] * cs[1][2], cs[1][2] * rest[2]>>

\* max(confidences) and min(confidences): the first extremal element.
FracMax(cs) ==
    cs[CHOOSE i \in 1..Len(cs) :
          /\ \A j \in 1..Len(cs) : AvgGeq(cs[i], cs[j])
          /\ \A j \in 1..(i - 1) : ~AvgGeq(cs[j], cs[i])]

FracMin(cs) ==
    cs[CHOOSE i \in 1..Len(cs) :
          /\ \A j \in 1..Len(cs) : AvgGeq(cs[j], cs[i])
          /\ \A j \in 1..(i - 1) : ~AvgGeq(cs[i], cs[j])]

\* The summary with a plate of mean exactly 0.8 counted as high confidence.
SummaryHighInclusive(rs) ==
    IF rs = <<>>
    THEN [message |-> "No plates detected"]
    ELSE LET confidences == [i \in 1..Len(rs) |-> rs[i].avg_confidence]
             total == FracSum(confidences)
         IN  [total_plates   |-> Len(rs),
              avg_confidence |-> <<total[1], total[2] * Len(confidences)>>,
              max_confidence |-> FracMax(confidences),
              min_confidence |-> FracMin(confidences),
              high_confidence_count |->
                  Cardinality({i \in 1..Len(confidences) :
                      confidences[i][1] >= HighConfidence * confidences[i][2]})]

_calculate_confidence_summary(rs) ==
    IF rs = <<>>
    THEN [message |-> "No plates detected"]
    ELSE LET confidences == [i \in 1..Len(rs) |-> rs[i].avg_confidence]
             total == FracSum(confidences)
         IN  [total_plates   |-> Len(rs),
              avg_confidence |-> <<total[1], total[2] * Len(confidences)>>,
              max_confidence |-> FracMax(confidences),
              min_confidence |-> FracMin(confidences),
              high_confidence_count |->
                  Cardinality({i \in 1..Len(confidences) :
                      confidences[i][1] > HighConfidence * confidences[i][2]})]

(***************************************************************************)
(* _process_frame                                                          *)
(* A frame is the record of what the collaborators report on it: shape     *)
(* <<height, width>>, the cascade boxes, the contour bounding rectangles,  *)
(* the readings <<text, confidence>> the text engine returns on a plate    *)
(* region, and whether the engine raises instead.                          *)
(***************************************************************************)
Padding       == 10
MinConfidence == 30

\* _extract_plate_region returns an image (TRUE) or None (FALSE): the padded
\* crop clamped to the frame is empty or not.
_extract_plate_region(shape, x, y, w, h) ==
    LET x_start == Max2(0, x - Padding)
        y_start == Max2(0, y - Padding)
        x_end   == Min2(shape[2], x + w + Padding)
        y_end   == Min2(shape[1], y + h + Padding)
    IN  x_end > x_start /\ y_end > y_start

\* The loop of _recognize_text with the floor tested before the text is
\* cleaned and a reading of exactly MinConfidence let through.
RecognizeTraceFloorFirst(reads) ==
    [i \in 1..Len(reads) |->
        IF reads[i][2] >= MinConfidence
        THEN LET cleaned_text == _clean_plate_text(reads[i][1])
             IN  [text       |-> reads[i][1],
                  confidence |-> reads[i][2],
                  cleaned    |-> <<cleaned_text>>,
                  appended   |-> cleaned_text # <<>>]
        ELSE [text       |-> reads[i][1],
              confidence |-> reads[i][2],
              cleaned    |-> <<>>,
              appended   |-> FALSE]]

\* The loop of _recognize_text over the readings of the text engine,
\* anpr.py:284-292.  For each reading: the raw text and confidence, the text
\* _clean_plate_text returned when it was called (<<>> when it was not), and
\* whether the reading was appended to text_results.
RecognizeTrace(reads) ==
    [i \in 1..Len(reads) |->
        LET cleaned_text == _clean_plate_text(reads[i][1])
        IN  [text       |-> reads[i][1],
             confidence |-> reads[i][2],
             cleaned    |-> <<cleaned_text>>,
             appended   |-> cleaned_text # <<>> /\ reads[i][2] > MinConfidence]]

\* _recognize_text on the plate region of a frame.
_recognize_text(frame) ==
    IF frame.ocr_raises
    THEN <<>>
    ELSE LET kept == SelectSeq(RecognizeTrace(frame.reads), LAMBDA r : r.appended)
         IN  [i \in 1..Len(kept) |->
                 [text |-> kept[i].cleaned[1], confidence |-> kept[i].confidence]]

Detection(text_data, nmr, timestamp, plate) ==
    [plate_text           |-> text_data.text,
     confidence           |-> text_data.confidence,
     frame                |-> nmr,
     timestamp            |-> timestamp,
     bounding_box         |-> <<plate[1], plate[2], plate[3], plate[4]>>,
     detection_confidence |-> plate[5]]

\* The Detections of one plate of the frame: none when the region is empty.
PlateResultsNoValidate(frame, nmr, timestamp, plate) ==
    IF ~_extract_plate_region(frame.shape, plate[1], plate[2], plate[3], plate[4])
    THEN <<>>
    ELSE LET text_results == _recognize_text(frame)
         IN  [i \in 1..Len(text_results) |->
                 Detection(text_results[i], nmr, timestamp, plate)]

PlateResults(frame, nmr, timestamp, plate) ==
    IF ~_extract_plate_region(frame.shape, plate[1], plate[2], plate[3], plate[4])
    THEN <<>>
    ELSE LET text_results == SelectSeq(_recognize_text(frame),
                                       LAMBDA r : _validate_plate_text(r.text))
         IN  [i \in 1..Len(text_results) |->
                 Detection(text_results[i], nmr, timestamp, plate)]

RECURSIVE FrameResultsFrom(_, _, _, _, _)
FrameResultsFrom(frame, nmr, timestamp, plates, k) ==
    IF k > Len(plates)
    THEN <<>>
    ELSE PlateResults(frame, nmr, timestamp, plates[k])
         \o FrameResultsFrom(frame, nmr, timestamp, plates, k + 1)

_process_frame(frame, nmr, timestamp) ==
    FrameResultsFrom(frame, nmr, timestamp,
                     _detect_plates_multi_method(frame.boxes, frame.rects), 1)

\* History of the text engine: the readings it returned on the regions of the
\* frame that reached it, each with the frame number and with what the loop of
\* _recognize_text did with it.
RECURSIVE EngineReadingsFrom(_, _, _, _)
EngineReadingsFrom(frame, nmr, plates, k) ==
    IF k > Len(plates)
    THEN <<>>
    ELSE ( IF frame.ocr_raises
              \/ ~_extract_plate_region(frame.shape, plates[k][1], plates[k][2],
                                        plates[k][3], plates[k][4])
           THEN <<>>
           ELSE LET trace == RecognizeTrace(frame.reads)
                IN  [i \in 1..Len(trace) |->
                        [frame      |-> nmr,
                         box        |-> <<plates[k][1], plates[k][2],
                                          plates[k][3], plates[k][4]>>,
                         text       |-> trace[i].text,
                         confidence |-> trace[i].confidence,
                         cleaned    |-> trace[i].cleaned,
                         appended   |-> trace[i].appended]] )
         \o EngineReadingsFrom(frame, nmr, plates, k + 1)

EngineReadings(frame, nmr) ==
    EngineReadingsFrom(frame, nmr,
                       _detect_plates_multi_method(frame.boxes, frame.rects), 1)

LogEntry(level, message) == [level |-> level, message |-> message]

\* What the regions of a frame write to the logger: nothing for a region whose
\* crop is empty (anpr.py:254-255), a warning for a region on which the text
\* engine raises (anpr.py:294-295).
RECURSIVE FrameLogFrom(_, _, _)
FrameLogFrom(frame, plates, k) ==
    IF k > Len(plates)
    THEN <<>>
    ELSE ( IF ~_extract_plate_region(frame.shape, plates[k][1], plates[k][2],
                                     plates[k][3], plates[k][4])
           THEN <<>>
           ELSE IF frame.ocr_raises
                THEN << LogEntry("warning", "Error in text recognition") >>
                ELSE <<>> )
         \o FrameLogFrom(frame, plates, k + 1)

FrameLog(frame) ==
    FrameLogFrom(frame, _detect_plates_multi_method(frame.boxes, frame.rects), 1)

\* History of the recoverable errors of a frame: the regions whose crop is
\* empty and the regions on which the text engine raises.
RECURSIVE FrameFaultsFrom(_, _, _, _)
FrameFaultsFrom(frame, nmr, plates, k) ==
    IF k > Len(plates)
    THEN <<>>
    ELSE ( IF ~_extract_plate_region(frame.shape, plates[k][1], plates[k][2],
                                     plates[k][3], plates[k][4])
           THEN << [frame |-> nmr, kind |-> "EmptyRegion",
                    box |-> <<plates[k][1], plates[k][2], plates[k][3], plates[k][4]>>] >>
           ELSE IF frame.ocr_raises
                THEN << [frame |-> nmr, kind |-> "RecognitionFailure",
                         box |-> <<plates[k][1], plates[k][2], plates[k][3], plates[k][4]>>] >>
                ELSE <<>> )
         \o FrameFaultsFrom(frame, nmr, plates, k + 1)

FrameFaults(frame, nmr) ==
    FrameFaultsFrom(frame, nmr,
                    _detect_plates_multi_method(frame.boxes, frame.rects), 1)

(***************************************************************************)
(* process_video                                                           *)
(***************************************************************************)
LogEvery == 20

\* logger.info every 20 processed frames, anpr.py:100-101
ProgressLog(processed) ==
    IF processed % LogEvery = 0
    THEN << LogEntry("info", "Processed frames") >>
    ELSE <<>>

SampleEvery == 5

\* The timestamp as the frame number whatever the frame rate.
TimestampOrdinal(n, fps) == <<n, 1>>

\* timestamp = frame_nmr / fps if fps > 0 else frame_nmr, as a fraction
Timestamp(n, fps) == IF fps > 0 THEN <<n, fps>> ELSE <<n, 1>>

\* duration = total_frames / fps if fps > 0 else 0, as a fraction
Duration(total_frames, fps) == IF fps > 0 THEN <<total_frames, fps>> ELSE <<0, 1>>

ResultRecordNoSummary(final_results, total_frames, processed, duration) ==
    [plates_detected      |-> final_results,
     total_frames         |-> total_frames,
     processed_frames     |-> processed,
     video_duration       |-> duration,
     processing_timestamp |-> "now"]

\* The dictionary process_video returns.
ResultRecord(final_results, total_frames, processed, duration) ==
    [plates_detected      |-> final_results,
     total_frames         |-> total_frames,
     processed_frames     |-> processed,
     video_duration       |-> duration,
     processing_timestamp |-> "now",
     confidence_summary   |-> _calculate_confidence_summary(final_results)]

(***************************************************************************)
(* Idle values of the variables a specification does not use               *)
(***************************************************************************)
NoVideo == [exists |-> FALSE, opens |-> FALSE, fps |-> 0, total_frames |-> 0,
            delivered |-> 0, kind |-> "none"]

TextIdle ==
    /\ text = <<>>
    /\ outs = <<>>
    /\ valid = <<>>

NmsIdle ==
    /\ cascade_boxes = <<>>
    /\ contour_rects = <<>>
    /\ plates_out = <<>>

AggIdle ==
    /\ agg_in = <<>>
    /\ agg_out = <<>>

VideoIdle ==
    /\ video = NoVideo
    /\ pc = "idle"
    /\ frame_nmr = 0
    /\ processed_frames = 0
    /\ results = <<>>
    /\ readings = <<>>
    /\ file_exists = FALSE
    /\ ret = <<>>
    /\ log = <<>>
    /\ handed = <<>>
    /\ faults = <<>>

\* The fields ANPR.__init__ sets, anpr.py:14-33.
ANPRInstance ==
    [reader |-> "easyocr.Reader", plate_cascades |-> "cascades",
     plate_patterns |-> plate_patterns]

WorkerIdle ==
    /\ instance = ANPRInstance
    /\ calls = <<>>

(***************************************************************************)
(* Specification of the text functions: _clean_plate_text applied          *)
(* repeatedly to its own output, and _validate_plate_text, on bounded      *)
(* inputs.                                                                 *)
(***************************************************************************)
MaxLongLen  == 10
MaxShortLen == 4
MaxCalls    == 2

LongAlphabet  == {"O", "1"}
ShortAlphabet == {"O", "S", "B", "A", "1", "o", "-"}

ScenarioTexts ==
    { <<"A","B","1","2","3","4">>,
      <<"O","0","S","1","2">>,
      <<"a","b","-","1","2","3","4">>,
      <<"O","I","1","2">>,
      <<"A","B","1","2","\n">>,
      <<"Z","G","9","9","9","9","9","9">>,
      <<"O","O","O","O","O","O","O","O">> }

TextInputs ==
    SeqsUpTo(LongAlphabet, MaxLongLen)
        \cup SeqsUpTo(ShortAlphabet, MaxShortLen)
        \cup ScenarioTexts

InitText ==
    /\ text \in TextInputs
    /\ outs = <<>>
    /\ valid = <<>>
    /\ NmsIdle /\ AggIdle /\ VideoIdle /\ WorkerIdle

\* One call of _clean_plate_text: first on text, then on its own last output.
CleanPlateText ==
    /\ Len(outs) < MaxCalls
    /\ outs' = Append(outs, _clean_plate_text(IF outs = <<>> THEN text
                                               ELSE outs[Len(outs)]))
    /\ UNCHANGED <<text, valid, nmsVars, aggVars, videoVars, workerVars>>

\* One call of _validate_plate_text on text.
ValidatePlateText ==
    /\ valid = <<>>
    /\ valid' = <<_validate_plate_text(text)>>
    /\ UNCHANGED <<text, outs, nmsVars, aggVars, videoVars, workerVars>>

NextText ==
    \/ CleanPlateText
    \/ ValidatePlateText

SpecText == InitText /\ [][NextText]_vars

(***************************************************************************)
(* Claims about the text functions                                         *)
(***************************************************************************)
IsCleanText(t) == \A i \in 1..Len(t) : t[i] \in Alnum

\* C1: on text that is already clean (only A-Z/0-9) and passes the validator,
\* _clean_plate_text returns the text unchanged, and a second run on its own
\* output returns the same text again.
C1_CleanIsIdentityOnCleanValid ==
    (IsCleanText(text) /\ _validate_plate_text(text)) =>
        /\ Len(outs) >= 1 => outs[1] = text
        /\ Len(outs) >= 2 => outs[2] = outs[1]

\* The three plate grammars, stated by the shape of the string.
Grammar1(t) ==
    /\ Len(t) \in 4..7
    /\ \A i \in 1..Len(t) : t[i] \in Alnum

Grammar2(t) ==
    \E a \in 1..3, b \in 3..4 :
        /\ Len(t) = a + b
        /\ \A i \in 1..a : t[i] \in Letters
        /\ \A i \in (a + 1)..(a + b) : t[i] \in Digits

Grammar3(t) ==
    \E a \in 1..3, b \in 2..3, c \in 1..4 :
        /\ Len(t) = a + b + c
        /\ \A i \in 1..a : t[i] \in Digits
        /\ \A i \in (a + 1)..(a + b) : t[i] \in Letters
        /\ \A i \in (a + b + 1)..(a + b + c) : t[i] \in Digits

MatchesGrammar(t) == Grammar1(t) \/ Grammar2(t) \/ Grammar3(t)

\* C2 (as claimed): every string that matches one of the three plate grammars
\* is accepted by _validate_plate_text.
C2_GrammarImpliesValid ==
    (valid # <<>> /\ MatchesGrammar(text)) => valid = <<TRUE>>

\* C2 (amended): every string of at most 8 characters that matches one of the
\* three plate grammars is accepted by _validate_plate_text.
C2_GrammarWithinLengthImpliesValid ==
    (valid # <<>> /\ MatchesGrammar(text) /\ Len(text) <= MaxLen) =>
        valid = <<TRUE>>

C2_Witness ==
    /\ valid = <<TRUE>>
    /\ Grammar3(text)
    /\ ~Grammar1(text)
    /\ Len(text) = MaxLen

ScenarioC == <<"O","0","S","1","2">>

Winners(s) ==
    {k \in 1..Len(corrections) :
        /\ corrections[k][1] \in Range(s)
        /\ _validate_plate_text(Replace(s, corrections[k][1], corrections[k][2]))}

FirstWinner(s) == CHOOSE k \in Winners(s) : \A j \in Winners(s) : k <= j

C19_LengthOutsideRejected ==
    (valid # <<>> /\ (Len(text) < 3 \/ Len(text) > 8)) => valid = <<FALSE>>

\* A string of nine characters of the third grammar, with letters and digits.
C19_Witness ==
    /\ valid = <<FALSE>>
    /\ Len(text) = 9
    /\ Grammar3(text)

HasLetter(t) == \E i \in 1..Len(t) : t[i] \in Letters
HasDigit(t)  == \E i \in 1..Len(t) : t[i] \in Digits

\* C20: every string of A-Z/0-9 characters of length 4 to 7 is accepted by
\* _validate_plate_text whatever its content; a string of A-Z/0-9 characters
\* of length 3 or 8 that matches no grammar is accepted exactly when it has at
\* least one letter and at least one digit.
C20_FallbackOnlyAtThreeAndEight ==
    (valid # <<>> /\ IsCleanText(text)) =>
        /\ Len(text) \in 4..7 => valid = <<TRUE>>
        /\ (Len(text) \in {3, 8} /\ ~MatchesGrammar(text)) =>
               valid = <<HasLetter(text) /\ HasDigit(text)>>

\* Four digits and no letter, accepted.
C20_Witness ==
    /\ valid = <<TRUE>>
    /\ Len(text) = 4
    /\ ~HasLetter(text)
    /\ IsCleanText(text)

(***************************************************************************)
(* Specification of region detection: _detect_plates_multi_method on the   *)
(* rectangles the two detectors report for one frame.                      *)
(***************************************************************************)
MaxCascade == 2
MaxContour == 2

\* Rectangles of plate size; two that overlap heavily at the origin and
\* three side by side further right.
PlateRects ==
    { <<0, 0, 50, 20>>, <<0, 0, 60, 20>>,
      <<300, 0, 50, 20>>, <<320, 0, 50, 20>>, <<350, 0, 50, 20>>,
      <<300, 40, 60, 20>> }

\* Contour bounding rectangles also come too small or of the wrong shape.
ContourRects == PlateRects \cup { <<0, 0, 40, 20>>, <<0, 0, 50, 30>> }

InitNms ==
    /\ cascade_boxes \in SeqsUpTo(PlateRects, MaxCascade)
    /\ contour_rects \in SeqsUpTo(ContourRects, MaxContour)
    /\ plates_out = <<>>
    /\ TextIdle /\ AggIdle /\ VideoIdle /\ WorkerIdle

DetectPlatesMultiMethod ==
    /\ plates_out = <<>>
    /\ plates_out' = <<_detect_plates_multi_method(cascade_boxes, contour_rects)>>
    /\ UNCHANGED <<cascade_boxes, contour_rects, textVars, aggVars, videoVars, workerVars>>

NextNms == DetectPlatesMultiMethod

SpecNms == InitNms /\ [][NextNms]_vars

\* Intersection over union of the true rectangles of two plates exceeds 0.4.
TrueIoUExceeds(p, q) ==
    LET x1 == Max2(p[1], q[1])
        y1 == Max2(p[2], q[2])
        x2 == Min2(p[1] + p[3], q[1] + q[3])
        y2 == Min2(p[2] + p[4], q[2] + q[4])
        inter == IF x2 > x1 /\ y2 > y1 THEN (x2 - x1) * (y2 - y1) ELSE 0
        union == p[3] * p[4] + q[3] * q[4] - inter
    IN  10 * inter > 4 * union

\* Reference non-maximum suppression: position i of the pooled list comes
\* before position j when its confidence is higher, or equal and i < j.
Before(plates, i, j) ==
    \/ plates[i][5] > plates[j][5]
    \/ plates[i][5] = plates[j][5] /\ i < j

RECURSIVE RefKept(_, _)
RefKept(plates, i) ==
    /\ plates[i][5] >= 50
    /\ \A j \in 1..Len(plates) :
          (Before(plates, j, i) /\ TrueIoUExceeds(plates[i], plates[j]))
              => ~RefKept(plates, j)

IsReferenceNms(plates, out) ==
    LET K == {i \in 1..Len(plates) : RefKept(plates, i)}
    IN  /\ Len(out) = Cardinality(K)
        /\ \E f \in [1..Len(out) -> K] :
              /\ \A a, b \in 1..Len(out) : a < b => Before(plates, f[a], f[b])
              /\ \A a \in 1..Len(out) : out[a] = plates[f[a]]

\* C6: the output of _filter_duplicate_plates is reference non-maximum
\* suppression on the true rectangles (x, y, w, h) of the pooled regions:
\* confidence floor 0.5, descending confidence with ties in insertion order,
\* suppression exactly when IoU with a kept higher-ranked region exceeds 0.4,
\* each kept region unchanged.
C6_FilterIsReferenceNms ==
    plates_out # <<>> =>
        IsReferenceNms(AllPlates(cascade_boxes, contour_rects), plates_out[1])

(***************************************************************************)
(* Specification of aggregation: _post_process_results on bounded lists of *)
(* Detections in frame order.                                              *)
(***************************************************************************)
MaxDetections == 3

AggTexts == { <<"A","8","1","2","3">>, <<"X","Y","9","9">>, <<"7","K","K","7">> }
AggConfidences == {70, 80, 90, 95}

\* Lists of up to n Detections, one per sampled frame.
AggInputs(n) ==
    UNION { { [i \in 1..k |->
                 [plate_text           |-> ts[i],
                  confidence           |-> cs[i],
                  frame                |-> SampleEvery * (i - 1),
                  timestamp            |-> <<SampleEvery * (i - 1), 1>>,
                  bounding_box         |-> <<0, 0, 50, 20>>,
                  detection_confidence |-> CascadeConfidence]] :
              ts \in [1..k -> AggTexts], cs \in [1..k -> AggConfidences] } :
            k \in 0..n }

InitAgg ==
    /\ agg_in \in AggInputs(MaxDetections)
    /\ agg_out = <<>>
    /\ TextIdle /\ NmsIdle /\ VideoIdle /\ WorkerIdle

PostProcessResults ==
    /\ agg_out = <<>>
    /\ agg_out' = <<_post_process_results(agg_in)>>
    /\ UNCHANGED <<agg_in, textVars, nmsVars, videoVars, workerVars>>

NextAgg == PostProcessResults

SpecAgg == InitAgg /\ [][NextAgg]_vars

\* Positions of rs whose plate text is t, and the sum of their confidences.
PositionsOf(rs, t) == {i \in 1..Len(rs) : rs[i].plate_text = t}

RECURSIVE SumOver(_, _)
SumOver(rs, I) ==
    IF I = {} THEN 0
    ELSE LET i == CHOOSE i \in I : TRUE
         IN  rs[i].confidence + SumOver(rs, I \ {i})

FirstSeen(rs, t) == CHOOSE i \in PositionsOf(rs, t) : \A j \in PositionsOf(rs, t) : i <= j

\* Record r is member d of its group with the two annotations added.
IsAnnotated(r, d) ==
    /\ r.plate_text = d.plate_text
    /\ r.confidence = d.confidence
    /\ r.frame = d.frame
    /\ r.timestamp = d.timestamp
    /\ r.bounding_box = d.bounding_box
    /\ r.detection_confidence = d.detection_confidence

IsAggregationOf(rs, out) ==
    /\ {out[a].plate_text : a \in 1..Len(out)} = {rs[i].plate_text : i \in 1..Len(rs)}
    /\ \A a, b \in 1..Len(out) : a # b => out[a].plate_text # out[b].plate_text
    /\ \A a \in 1..Len(out) :
          LET G == PositionsOf(rs, out[a].plate_text)
          IN  /\ out[a].occurrence_count = Cardinality(G)
              /\ out[a].avg_confidence[1] * Cardinality(G)
                     = SumOver(rs, G) * out[a].avg_confidence[2]
              /\ out[a].avg_confidence[2] > 0
              /\ \E i \in G :
                    /\ IsAnnotated(out[a], rs[i])
                    /\ \A j \in G : rs[j].confidence <= rs[i].confidence
    /\ \A a, b \in 1..Len(out) :
          a < b =>
              /\ AvgGeq(out[a].avg_confidence, out[b].avg_confidence)
              /\ AvgGeq(out[b].avg_confidence, out[a].avg_confidence)
                   => FirstSeen(rs, out[a].plate_text) < FirstSeen(rs, out[b].plate_text)

\* C7: _post_process_results returns one record per distinct plate text, each
\* the group member of highest confidence annotated with occurrence_count =
\* group size and avg_confidence = mean of the group, ordered by descending
\* avg_confidence with ties in first-seen order; confidences 0.9, 0.7, 0.95 of
\* one text give count 3, their mean, and the 0.95 member.
C7_Aggregation ==
    agg_out # <<>> =>
        /\ IsAggregationOf(agg_in, agg_out[1])
        /\ ( /\ Len(agg_in) = 3
             /\ \A i \in 1..3 : agg_in[i].plate_text = agg_in[1].plate_text
             /\ <<agg_in[1].confidence, agg_in[2].confidence, agg_in[3].confidence>>
                    = <<90, 70, 95>> )
           => /\ Len(agg_out[1]) = 1
              /\ agg_out[1][1].occurrence_count = 3
              /\ agg_out[1][1].avg_confidence = <<255, 3>>
              /\ agg_out[1][1].confidence = 95
              /\ agg_out[1][1].frame = agg_in[3].frame

\* Two groups tied on the mean, the first seen with members 0.7 and 0.9 around
\* the single 0.8 member of the other: the first seen comes first, represented
\* by its 0.9 member.
C7_Witness ==
    /\ agg_out # <<>>
    /\ Len(agg_in) = 3
    /\ Len(agg_out[1]) = 2
    /\ agg_out[1][1].plate_text = agg_in[1].plate_text
    /\ agg_out[1][1].occurrence_count = 2
    /\ agg_out[1][1].confidence = 90
    /\ agg_in[1].confidence = 70
    /\ agg_out[1][2].avg_confidence = <<80, 1>>
    /\ agg_in[2].plate_text = agg_out[1][2].plate_text

(***************************************************************************)
(* Specification of process_video: one call on a video file whose frames   *)
(* are drawn, as they are read, from the frames below.                     *)
(***************************************************************************)
MaxShortFrames == 11
ScenarioFrames == 100
MaxReadings    == 2
FrameRate      == 25

FrameShape == <<480, 640>>

TextAB1234 == <<"A","B","1","2","3","4">>

NoPlateFrame ==
    [shape |-> FrameShape, boxes |-> <<>>, rects |-> <<>>,
     reads |-> <<>>, ocr_raises |-> FALSE, corrupt |-> FALSE]

\* One plate, read as AB1234 with confidence 0.85.
PlateFrame ==
    [shape |-> FrameShape, boxes |-> << <<300, 0, 50, 20>> >>, rects |-> <<>>,
     reads |-> << <<TextAB1234, 85>> >>, ocr_raises |-> FALSE, corrupt |-> FALSE]

\* Two regions apart from each other, each read as xy-99.
TwoRegionFrame ==
    [shape |-> FrameShape,
     boxes |-> << <<0, 0, 50, 20>> >>, rects |-> << <<300, 40, 60, 20>> >>,
     reads |-> << << <<"x","y","-","9","9">>, 90 >> >>, ocr_raises |-> FALSE, corrupt |-> FALSE]

\* One region with two readings of the same text.
TwoReadingFrame ==
    [shape |-> FrameShape, boxes |-> << <<0, 0, 50, 20>> >>, rects |-> <<>>,
     reads |-> << << <<"X","Y","9","9">>, 90 >>, << <<"X","Y","9","9">>, 70 >> >>,
     ocr_raises |-> FALSE, corrupt |-> FALSE]

\* One region with a reading that validates and one too short to.
MixedFrame ==
    [shape |-> FrameShape, boxes |-> <<>>, rects |-> << <<0, 0, 60, 20>> >>,
     reads |-> << << <<"X","Y","9","9">>, 80 >>, << <<"A","B">>, 95 >> >>,
     ocr_raises |-> FALSE, corrupt |-> FALSE]

\* One region read with confidence exactly 0.3.
FaintFrame ==
    [shape |-> FrameShape, boxes |-> << <<0, 0, 50, 20>> >>, rects |-> <<>>,
     reads |-> << << <<"X","Y","9","9">>, 30 >> >>, ocr_raises |-> FALSE, corrupt |-> FALSE]

\* One region read as all digits after correction, and as punctuation only.
UnreadableFrame ==
    [shape |-> FrameShape, boxes |-> << <<0, 0, 50, 20>> >>, rects |-> <<>>,
     reads |-> << << <<"O","1","2">>, 90 >>, << <<"-","-">>, 90 >> >>,
     ocr_raises |-> FALSE, corrupt |-> FALSE]

\* One region read with confidence 0.2.
DimFrame ==
    [shape |-> FrameShape, boxes |-> << <<0, 0, 50, 20>> >>, rects |-> <<>>,
     reads |-> << << <<"X","Y","9","9">>, 20 >> >>, ocr_raises |-> FALSE, corrupt |-> FALSE]

\* A region reported beyond the right edge of the frame, whose crop is empty,
\* and a region inside the frame.
OffFrame ==
    [shape |-> FrameShape, boxes |-> << <<700, 0, 50, 20>> >>,
     rects |-> << <<0, 0, 60, 20>> >>,
     reads |-> << << <<"X","Y","9","9">>, 90 >> >>, ocr_raises |-> FALSE, corrupt |-> FALSE]

\* One region on which the text engine raises.
OcrErrorFrame ==
    [shape |-> FrameShape, boxes |-> << <<0, 0, 50, 20>> >>, rects |-> <<>>,
     reads |-> <<>>, ocr_raises |-> TRUE, corrupt |-> FALSE]

\* A contour too small to be a plate: no region reaches the text engine.
NoiseFrame ==
    [shape |-> FrameShape, boxes |-> <<>>, rects |-> << <<0, 0, 40, 20>> >>,
     reads |-> << << <<"X","Y","9","9">>, 90 >> >>, ocr_raises |-> FALSE, corrupt |-> FALSE]

\* A frame on which the image conversion of _process_frame raises.
CorruptFrame ==
    [shape |-> FrameShape, boxes |-> <<>>, rects |-> <<>>,
     reads |-> <<>>, ocr_raises |-> FALSE, corrupt |-> TRUE]

AllFrames == {CorruptFrame, NoPlateFrame, PlateFrame, TwoRegionFrame, TwoReadingFrame,
              MixedFrame, FaintFrame, DimFrame, UnreadableFrame, OcrErrorFrame,
              NoiseFrame, OffFrame}

FramesOf(v) == IF v.kind = "scenario" THEN {NoPlateFrame, PlateFrame}
               ELSE AllFrames

\* Short videos of every length, possibly cut short by a read failure, frame
\* rate known or not; files that are missing or do not open; and the video
\* of 100 frames of end-to-end scenario B.
Videos ==
    UNION { { [exists |-> TRUE, opens |-> TRUE, fps |-> f, total_frames |-> t,
               delivered |-> d, kind |-> "short"] :
                  f \in {0, FrameRate}, d \in {n \in 0..t : n >= t - 1} } :
            t \in 0..MaxShortFrames }
    \cup
    { [exists |-> e, opens |-> FALSE, fps |-> 0, total_frames |-> 0,
       delivered |-> 0, kind |-> "short"] : e \in BOOLEAN }
    \cup
    { [exists |-> TRUE, opens |-> TRUE, fps |-> FrameRate,
       total_frames |-> ScenarioFrames, delivered |-> ScenarioFrames,
       kind |-> "scenario"] }

InitVideo ==
    /\ video \in Videos
    /\ pc = "start"
    /\ frame_nmr = 0
    /\ processed_frames = 0
    /\ results = <<>>
    /\ readings = <<>>
    /\ file_exists = video.exists
    /\ ret = <<>>
    /\ log = <<>>
    /\ handed = <<>>
    /\ faults = <<>>
    /\ TextIdle /\ NmsIdle /\ AggIdle /\ WorkerIdle

\* anpr.py:66-67
OpenMissing ==
    /\ pc = "start"
    /\ ~video.exists
    /\ pc' = "FileNotFoundError"
    /\ UNCHANGED <<video, frame_nmr, processed_frames, results, readings,
                   file_exists, ret, log, handed, faults,
                   textVars, nmsVars, aggVars, workerVars>>

\* A capture that does not open, without the isOpened test.
OpenFailsUnchecked ==
    /\ pc = "start"
    /\ video.exists
    /\ ~video.opens
    /\ pc' = "loop"
    /\ UNCHANGED <<video, frame_nmr, processed_frames, results, readings,
                   file_exists, ret, log, handed, faults,
                   textVars, nmsVars, aggVars, workerVars>>

\* anpr.py:69-71
OpenFails ==
    /\ pc = "start"
    /\ video.exists
    /\ ~video.opens
    /\ pc' = "ValueError"
    /\ UNCHANGED <<video, frame_nmr, processed_frames, results, readings,
                   file_exists, ret, log, handed, faults,
                   textVars, nmsVars, aggVars, workerVars>>

\* anpr.py:69-83
Open ==
    /\ pc = "start"
    /\ video.exists
    /\ video.opens
    /\ pc' = "loop"
    /\ results' = <<>>
    /\ frame_nmr' = 0
    /\ processed_frames' = 0
    /\ log' = Append(log, LogEntry("info", "Processing video"))
    /\ UNCHANGED <<video, readings, file_exists, ret, handed, faults,
                   textVars, nmsVars, aggVars, workerVars>>

\* The end of the stream dropping the Detections accumulated so far.
ReadEndDiscards ==
    /\ pc = "loop"
    /\ frame_nmr >= video.delivered
    /\ pc' = "cleanup"
    /\ results' = <<>>
    /\ UNCHANGED <<video, frame_nmr, processed_frames, readings,
                   file_exists, ret, log, handed, faults,
                   textVars, nmsVars, aggVars, workerVars>>

\* cap.read() returns ret = False: end of stream or read failure.
ReadEnd ==
    /\ pc = "loop"
    /\ frame_nmr >= video.delivered
    /\ pc' = "cleanup"
    /\ UNCHANGED <<video, frame_nmr, processed_frames, results, readings,
                   file_exists, ret, log, handed, faults,
                   textVars, nmsVars, aggVars, workerVars>>

\* A frame that is not sampled.
SkipFrame ==
    /\ pc = "loop"
    /\ frame_nmr < video.delivered
    /\ frame_nmr % SampleEvery # 0
    /\ frame_nmr' = frame_nmr + 1
    /\ UNCHANGED <<video, pc, processed_frames, results, readings,
                   file_exists, ret, log, handed, faults,
                   textVars, nmsVars, aggVars, workerVars>>

\* A sampled frame, anpr.py:92-103.
SampleFrame ==
    /\ pc = "loop"
    /\ frame_nmr < video.delivered
    /\ frame_nmr % SampleEvery = 0
    /\ \E frame \in FramesOf(video) :
          LET timestamp == Timestamp(frame_nmr, video.fps)
              frame_results == _process_frame(frame, frame_nmr, timestamp)
          IN  /\ ~frame.corrupt
              /\ Len(readings) + Len(EngineReadings(frame, frame_nmr)) <= MaxReadings
              /\ readings' = readings \o EngineReadings(frame, frame_nmr)
              /\ faults' = faults \o FrameFaults(frame, frame_nmr)
              /\ handed' = Append(handed, [frame     |-> frame_nmr,
                                           timestamp |-> timestamp,
                                           image     |-> frame])
              /\ results' = results \o frame_results
              /\ log' = log \o FrameLog(frame) \o ProgressLog(processed_frames + 1)
    /\ processed_frames' = processed_frames + 1
    /\ frame_nmr' = frame_nmr + 1
    /\ UNCHANGED <<video, pc, file_exists, ret, textVars, nmsVars, aggVars, workerVars>>

\* An exception raised while a sampled frame is processed, anpr.py:105-106.
SampleFrameRaises ==
    /\ pc = "loop"
    /\ frame_nmr < video.delivered
    /\ frame_nmr % SampleEvery = 0
    /\ \E frame \in FramesOf(video) :
          /\ frame.corrupt
          /\ handed' = Append(handed, [frame     |-> frame_nmr,
                                       timestamp |-> Timestamp(frame_nmr, video.fps),
                                       image     |-> frame])
    /\ log' = Append(log, LogEntry("error", "Error processing video"))
    /\ pc' = "cleanup"
    /\ UNCHANGED <<video, frame_nmr, processed_frames, results, readings,
                   file_exists, ret, faults, textVars, nmsVars, aggVars, workerVars>>

\* The end of process_video without the removal of the video file.
FinishKeepsFile ==
    /\ pc = "cleanup"
    /\ ret' = << ResultRecord(_post_process_results(results),
                              video.total_frames, processed_frames,
                              Duration(video.total_frames, video.fps)) >>
    /\ pc' = "done"
    /\ UNCHANGED <<video, frame_nmr, processed_frames, results, readings,
                   file_exists, log, handed, faults, textVars, nmsVars, aggVars, workerVars>>

\* anpr.py:107-127: release, os.remove (which may fail), aggregation, return.
Finish ==
    /\ pc = "cleanup"
    /\ \E removed \in BOOLEAN :
          /\ file_exists' = IF removed THEN FALSE ELSE file_exists
          /\ log' = Append(log, IF removed
                                THEN LogEntry("info", "Cleaned up video file")
                                ELSE LogEntry("warning", "Could not remove video file"))
    /\ ret' = << ResultRecord(_post_process_results(results),
                              video.total_frames, processed_frames,
                              Duration(video.total_frames, video.fps)) >>
    /\ pc' = "done"
    /\ UNCHANGED <<video, frame_nmr, processed_frames, results, readings,
                   handed, faults, textVars, nmsVars, aggVars, workerVars>>

NextVideo ==
    \/ OpenMissing
    \/ OpenFails
    \/ Open
    \/ ReadEnd
    \/ SkipFrame
    \/ SampleFrame
    \/ SampleFrameRaises
    \/ Finish

SpecVideo == InitVideo /\ [][NextVideo]_vars

(***************************************************************************)
(* Claims about process_video                                              *)
(***************************************************************************)
PlatesDetected == ret[1].plates_detected

IsPlateText(t) ==
    /\ t # <<>>
    /\ Len(t) >= 3
    /\ Len(t) <= 8
    /\ \A i \in 1..Len(t) : t[i] \in Alnum
    /\ _validate_plate_text(t)

\* Positions of the engine readings whose cleaned text passes the validator.
ValidReadings ==
    {i \in 1..Len(readings) : _validate_plate_text(_clean_plate_text(readings[i].text))}

\* C3: every Detection emitted by _process_frame, and every record of
\* plates_detected, has a plate text that is non-empty, 3 to 8 characters long,
\* made of A-Z and 0-9 only and accepted by _validate_plate_text; every
\* Detection comes from a reading of its frame whose cleaned text passes the
\* validator, and no other reading becomes one.
C3_DetectionsAreValid ==
    /\ \A i \in 1..Len(results) :
          /\ IsPlateText(results[i].plate_text)
          /\ \E j \in ValidReadings :
                /\ readings[j].frame = results[i].frame
                /\ _clean_plate_text(readings[j].text) = results[i].plate_text
                /\ readings[j].confidence = results[i].confidence
    /\ Len(results) <= Cardinality(ValidReadings)
    /\ ret # <<>> =>
          \A i \in 1..Len(PlatesDetected) : IsPlateText(PlatesDetected[i].plate_text)

\* A finished run in which one reading became a Detection and another, with
\* enough confidence and non-empty cleaned text, was turned down.
C3_Witness ==
    /\ ret # <<>>
    /\ Len(PlatesDetected) >= 1
    /\ \E j \in 1..Len(readings) :
          /\ readings[j].confidence > MinConfidence
          /\ _clean_plate_text(readings[j].text) # <<>>
          /\ j \notin ValidReadings

FramesWith(t) == {results[i].frame : i \in PositionsOf(results, t)}

\* C8 (as claimed): occurrence_count of every record of the final result is
\* the number of distinct sampled frames in which its plate text was detected.
C8_CountIsDistinctFrames ==
    ret # <<>> =>
        \A a \in 1..Len(PlatesDetected) :
            PlatesDetected[a].occurrence_count
                = Cardinality(FramesWith(PlatesDetected[a].plate_text))

\* C8 (amended): occurrence_count of every record of the final result is the
\* number of Detections of its plate text over all sampled frames, a frame
\* that yields the text several times counting once per Detection.
C8_CountIsDetections ==
    ret # <<>> =>
        \A a \in 1..Len(PlatesDetected) :
            PlatesDetected[a].occurrence_count
                = Cardinality(PositionsOf(results, PlatesDetected[a].plate_text))

\* One frame yielded the same text twice.
C8_Witness ==
    /\ ret # <<>>
    /\ \E a \in 1..Len(PlatesDetected) :
          /\ PlatesDetected[a].occurrence_count = 2
          /\ Cardinality(FramesWith(PlatesDetected[a].plate_text)) = 1

\* C9: a video of 100 frames sampled every 5th frame gives processed_frames =
\* 20; when exactly one sample is read, as AB1234 with confidence 0.85, the
\* final result has exactly one record, with plate text AB1234,
\* occurrence_count 1 and avg_confidence 0.85, and total_plates = 1.
C9_ScenarioB ==
    ( /\ ret # <<>>
      /\ video.total_frames = 100
      /\ video.delivered = 100
      /\ Len(readings) = 1
      /\ readings[1].text = TextAB1234
      /\ readings[1].confidence = 85 )
    => /\ ret[1].processed_frames = 20
       /\ Len(PlatesDetected) = 1
       /\ PlatesDetected[1].plate_text = TextAB1234
       /\ PlatesDetected[1].occurrence_count = 1
       /\ PlatesDetected[1].avg_confidence[1] = 85 * PlatesDetected[1].avg_confidence[2]
       /\ ret[1].confidence_summary.total_plates = 1

\* C10 (as claimed): the record process_video returns has exactly the fields
\* plates_detected, total_frames, processed_frames, video_duration_seconds,
\* processing_timestamp and confidence_summary.
C10_FieldsAsClaimed ==
    ret # <<>> =>
        DOMAIN ret[1] = {"plates_detected", "total_frames", "processed_frames",
                         "video_duration_seconds", "processing_timestamp",
                         "confidence_summary"}

\* C10 (amended): the record process_video returns has exactly the fields
\* plates_detected, total_frames, processed_frames, video_duration,
\* processing_timestamp and confidence_summary, with or without detections.
C10_Fields ==
    ret # <<>> =>
        DOMAIN ret[1] = {"plates_detected", "total_frames", "processed_frames",
                         "video_duration", "processing_timestamp",
                         "confidence_summary"}

C10_Witness ==
    /\ ret # <<>>
    /\ pc = "done"
    /\ PlatesDetected = <<>>
    /\ ret[1].processed_frames > 0

\* C11 as claimed: a reading is dropped before the normalizer exactly when its
\* confidence is below 0.3: one of confidence 0.3 or more with a non-empty
\* cleaned text is passed on, one below 0.3 is not, and _clean_plate_text is
\* not called on a reading the floor drops.
C11_FloorBeforeNormalizer ==
    \A j \in 1..Len(readings) :
        /\ ( /\ readings[j].confidence >= MinConfidence
             /\ _clean_plate_text(readings[j].text) # <<>> ) => readings[j].appended
        /\ readings[j].confidence < MinConfidence =>
               (~readings[j].appended /\ readings[j].cleaned = <<>>)

\* C11: _clean_plate_text is called on every reading of the text engine,
\* before the floor is tested, and the reading is passed on exactly when its
\* cleaned text is non-empty and its confidence is strictly above 0.3.
C11_FloorAfterNormalizer ==
    \A j \in 1..Len(readings) :
        /\ readings[j].cleaned = << _clean_plate_text(readings[j].text) >>
        /\ readings[j].appended <=>
               ( /\ _clean_plate_text(readings[j].text) # <<>>
                 /\ readings[j].confidence > MinConfidence )

\* A reading of confidence exactly 0.3 and non-empty cleaned text, dropped.
C11_Witness ==
    \E j \in 1..Len(readings) :
        /\ readings[j].confidence = MinConfidence
        /\ readings[j].cleaned # << <<>> >>
        /\ readings[j].cleaned # <<>>
        /\ ~readings[j].appended

\* The log entries written for recoverable errors.
FaultLog == SelectSeq(log, LAMBDA e : e.message = "Error in text recognition")

\* Sampled frame numbers below n: 0, 5, 10, ...
SampledBelow(n) == {i \in 0..(n - 1) : i % SampleEvery = 0}

ProcessingRaised ==
    \E i \in 1..Len(log) : log[i].message = "Error processing video"

\* C12 as claimed: every recoverable error is logged and none aborts the
\* pipeline: for each region on which the text engine raises and each region
\* whose crop is empty there is a log entry, the region contributes no reading
\* and no Detection, and process_video goes on to the remaining regions and
\* the later frames.
C12_RecoverableErrorsLogged ==
    /\ Len(FaultLog) = Len(faults)
    /\ \A i \in 1..Len(faults) :
          /\ \A j \in 1..Len(readings) :
                ~(readings[j].frame = faults[i].frame /\ readings[j].box = faults[i].box)
          /\ \A j \in 1..Len(results) :
                ~(results[j].frame = faults[i].frame
                  /\ results[j].bounding_box = faults[i].box)
    /\ (pc = "done" /\ ~ProcessingRaised) =>
          {handed[i].frame : i \in 1..Len(handed)} = SampledBelow(video.delivered)

\* What holds of the code: the claim for the regions on which the text engine
\* raises, and no log entry at all for a region whose crop is empty.
C12_OnlyRecognitionFailureLogged ==
    /\ Len(FaultLog) = Cardinality({i \in 1..Len(faults) :
                                       faults[i].kind = "RecognitionFailure"})
    /\ \A i \in 1..Len(faults) :
          /\ \A j \in 1..Len(readings) :
                ~(readings[j].frame = faults[i].frame /\ readings[j].box = faults[i].box)
          /\ \A j \in 1..Len(results) :
                ~(results[j].frame = faults[i].frame
                  /\ results[j].bounding_box = faults[i].box)
    /\ (pc = "done" /\ ~ProcessingRaised) =>
          {handed[i].frame : i \in 1..Len(handed)} = SampledBelow(video.delivered)

Raised == pc \in {"FileNotFoundError", "ValueError"}

C14_OpenFailureRaises ==
    /\ (~video.exists \/ ~video.opens) =>
          /\ pc \in {"start", "FileNotFoundError", "ValueError"}
          /\ pc = "FileNotFoundError" <=> (pc # "start" /\ ~video.exists)
    /\ Raised =>
          /\ ~video.exists \/ ~video.opens
          /\ ret = <<>>
          /\ frame_nmr = 0
          /\ processed_frames = 0
          /\ handed = <<>>
          /\ readings = <<>>
          /\ results = <<>>

\* The file exists and the capture does not open: ValueError.
C14_Witness ==
    /\ pc = "ValueError"
    /\ video.exists
    /\ ~video.opens
    /\ ret = <<>>

\* The readings that became Detections, in the order they were read.
Emitted ==
    SelectSeq(readings,
              LAMBDA r : r.appended /\ _validate_plate_text(r.cleaned[1]))

\* The stream stopped delivering before total_frames and process_video met
\* the failed read.
ReadFailed ==
    /\ pc \in {"cleanup", "done"}
    /\ video.delivered < video.total_frames
    /\ frame_nmr = video.delivered

\* C15: if a frame read fails after k frames were read, process_video does
\* not raise and returns a record whose plates_detected is the aggregation of
\* exactly the Detections of the sampled frames among those k, one per
\* reading of those frames that was passed on and validated, and whose
\* processed_frames is the number of those sampled frames.
C15_ReadFailureReturnsPartial ==
    /\ (video.exists /\ video.opens) => ~Raised
    /\ (pc = "done" /\ ReadFailed) =>
          /\ ret # <<>>
          /\ ret[1].processed_frames = Cardinality(SampledBelow(video.delivered))
          /\ {handed[i].frame : i \in 1..Len(handed)} = SampledBelow(video.delivered)
          /\ Len(results) = Len(Emitted)
          /\ \A i \in 1..Len(results) :
                /\ results[i].frame \in SampledBelow(video.delivered)
                /\ results[i].frame = Emitted[i].frame
                /\ results[i].plate_text = Emitted[i].cleaned[1]
                /\ results[i].confidence = Emitted[i].confidence
                /\ results[i].bounding_box = Emitted[i].box
          /\ IsAggregationOf(results, ret[1].plates_detected)

\* The read fails after at least six frames, two were sampled and a plate
\* is returned.
C15_Witness ==
    /\ pc = "done"
    /\ ReadFailed
    /\ video.delivered > SampleEvery
    /\ ret[1].processed_frames = 2
    /\ Len(ret[1].plates_detected) >= 1

\* The number of frames process_video has read from the stream.
FramesRead == IF ProcessingRaised THEN frame_nmr + 1 ELSE frame_nmr

HandedInOrder ==
    \A i \in 1..Len(handed) :
        /\ handed[i].frame = SampleEvery * (i - 1)
        /\ handed[i].timestamp = IF video.fps > 0
                                 THEN <<handed[i].frame, video.fps>>
                                 ELSE <<handed[i].frame, 1>>

\* C16 as claimed: of the n frames read from the stream, the frame processor
\* is handed exactly those of index 0, 5, 10, ... below n, in increasing order
\* and each once, with timestamp index / frame-rate when the frame rate is
\* positive and index otherwise, and processed_frames ends equal to the number
\* of such frames.
C16_EveryFifthFrameCounted ==
    /\ HandedInOrder
    /\ pc = "done" =>
          /\ {handed[i].frame : i \in 1..Len(handed)} = SampledBelow(FramesRead)
          /\ ret[1].processed_frames = Cardinality(SampledBelow(FramesRead))

\* C16: the frame processor is handed exactly the frames of index 0, 5, 10,
\* ... among the frames read, in increasing order and each once, with the
\* timestamps as claimed; all frames of the stream are read unless the
\* processing of a frame raises, and processed_frames ends equal to the number
\* of handed frames whose processing completed, one less than the number of
\* handed frames when the processing of the last one raised.
C16_EveryFifthFrameRead ==
    /\ HandedInOrder
    /\ pc = "loop" => processed_frames = Len(handed)
    /\ pc \in {"cleanup", "done"} =>
          /\ {handed[i].frame : i \in 1..Len(handed)} = SampledBelow(FramesRead)
          /\ ~ProcessingRaised => FramesRead = video.delivered
          /\ processed_frames = Len(handed) - (IF ProcessingRaised THEN 1 ELSE 0)
    /\ pc = "done" => ret[1].processed_frames = processed_frames

\* The processing of the second sampled frame raised, at a known frame rate.
C16_Witness ==
    /\ pc = "done"
    /\ ProcessingRaised
    /\ video.fps > 0
    /\ Len(handed) = 2
    /\ ret[1].processed_frames = 1

\* The product of the denominators of the means of the plates from k on, and
\* the sum of the means scaled by a common multiple D of the denominators.
RECURSIVE DenominatorProduct(_, _)
DenominatorProduct(ps, k) ==
    IF k > Len(ps) THEN 1
    ELSE ps[k].avg_confidence[2] * DenominatorProduct(ps, k + 1)

RECURSIVE ScaledSum(_, _, _)
ScaledSum(ps, D, k) ==
    IF k > Len(ps) THEN 0
    ELSE ps[k].avg_confidence[1] * (D \div ps[k].avg_confidence[2])
         + ScaledSum(ps, D, k + 1)

SameFraction(a, b) == a[1] * b[2] = b[1] * a[2]

\* C17: with no detection, plates_detected is empty and confidence_summary is
\* exactly the record with the message "No plates detected"; otherwise
\* confidence_summary has total_plates = the number of plates, avg, max and
\* min_confidence = the mean, maximum and minimum of their avg_confidence, and
\* high_confidence_count = the number of plates whose avg_confidence is
\* strictly above 0.8.
C17_ConfidenceSummary ==
    ret # <<>> =>
        LET ps == ret[1].plates_detected
            summary == ret[1].confidence_summary
            D == DenominatorProduct(ps, 1)
        IN  /\ results = <<>> =>
                  /\ ps = <<>>
                  /\ summary = [message |-> "No plates detected"]
            /\ results # <<>> =>
                  /\ ps # <<>>
                  /\ DOMAIN summary = {"total_plates", "avg_confidence", "max_confidence",
                                       "min_confidence", "high_confidence_count"}
                  /\ summary.total_plates = Len(ps)
                  /\ summary.avg_confidence[2] > 0
                  /\ summary.avg_confidence[1] * Len(ps) * D
                         = summary.avg_confidence[2] * ScaledSum(ps, D, 1)
                  /\ \A i \in 1..Len(ps) :
                        /\ AvgGeq(summary.max_confidence, ps[i].avg_confidence)
                        /\ AvgGeq(ps[i].avg_confidence, summary.min_confidence)
                  /\ \E i \in 1..Len(ps) :
                        SameFraction(summary.max_confidence, ps[i].avg_confidence)
                  /\ \E i \in 1..Len(ps) :
                        SameFraction(summary.min_confidence, ps[i].avg_confidence)
                  /\ summary.high_confidence_count =
                         Cardinality({i \in 1..Len(ps) :
                             ps[i].avg_confidence[1]
                                 > HighConfidence * ps[i].avg_confidence[2]})

\* One plate read twice, of mean exactly 0.8: it is not counted.
C17_Witness ==
    /\ ret # <<>>
    /\ Len(ret[1].plates_detected) = 1
    /\ ret[1].plates_detected[1].occurrence_count = 2
    /\ SameFraction(ret[1].plates_detected[1].avg_confidence, <<HighConfidence, 1>>)
    /\ ret[1].confidence_summary.high_confidence_count = 0

(***************************************************************************)
(* Specification of two process_video calls on different videos            *)
(* interleaved on the one instance tasks.anpr_system: each step is a step  *)
(* of one of the calls, on its own locals and its own file                 *)
(***************************************************************************)
MaxWorkerFrames == 6

Callers == {1, 2}

WorkerFrames == {NoPlateFrame, PlateFrame, MixedFrame, CorruptFrame}

WorkerVideos ==
    { [exists |-> TRUE, opens |-> TRUE, fps |-> FrameRate, total_frames |-> t,
       delivered |-> t, kind |-> "short"] :
          t \in (MaxWorkerFrames - 1)..MaxWorkerFrames }

\* The locals of a call at its start; seen is the history of the frames it
\* handed to _process_frame, overlapped whether it sampled a frame while the
\* other call was inside its loop.
NewCall(v) ==
    [video |-> v, pc |-> "start", frame_nmr |-> 0, processed_frames |-> 0,
     results |-> <<>>, seen |-> <<>>, overlapped |-> FALSE,
     file_exists |-> TRUE, ret |-> <<>>]

InitWorker ==
    /\ instance = ANPRInstance
    /\ calls \in [Callers -> {NewCall(v) : v \in WorkerVideos}]
    /\ TextIdle /\ NmsIdle /\ AggIdle /\ VideoIdle

\* results.extend(frame_results) with results an attribute of the instance,
\* seen by every call.
AppendResultsShared(cs, c, frame_results) ==
    [k \in DOMAIN cs |-> [cs[k] EXCEPT !.results = @ \o frame_results]]

\* results.extend(frame_results), anpr.py:96: results is a local of the call.
AppendResults(cs, c, frame_results) ==
    [cs EXCEPT ![c].results = @ \o frame_results]

OtherInLoop(c) ==
    \E d \in Callers \ {c} : calls[d].pc = "loop" /\ calls[d].seen # <<>>

WorkerOpen(c) ==
    /\ calls[c].pc = "start"
    /\ calls[c].video.exists
    /\ calls[c].video.opens
    /\ calls' = [calls EXCEPT ![c].pc = "loop",
                              ![c].results = <<>>,
                              ![c].frame_nmr = 0,
                              ![c].processed_frames = 0]
    /\ UNCHANGED <<instance, textVars, nmsVars, aggVars, videoVars>>

WorkerReadEnd(c) ==
    /\ calls[c].pc = "loop"
    /\ calls[c].frame_nmr >= calls[c].video.delivered
    /\ calls' = [calls EXCEPT ![c].pc = "cleanup"]
    /\ UNCHANGED <<instance, textVars, nmsVars, aggVars, videoVars>>

WorkerSkipFrame(c) ==
    /\ calls[c].pc = "loop"
    /\ calls[c].frame_nmr < calls[c].video.delivered
    /\ calls[c].frame_nmr % SampleEvery # 0
    /\ calls' = [calls EXCEPT ![c].frame_nmr = @ + 1]
    /\ UNCHANGED <<instance, textVars, nmsVars, aggVars, videoVars>>

WorkerSampleFrame(c) ==
    /\ calls[c].pc = "loop"
    /\ calls[c].frame_nmr < calls[c].video.delivered
    /\ calls[c].frame_nmr % SampleEvery = 0
    /\ \E frame \in WorkerFrames :
          LET timestamp == Timestamp(calls[c].frame_nmr, calls[c].video.fps)
              frame_results == _process_frame(frame, calls[c].frame_nmr, timestamp)
          IN  /\ ~frame.corrupt
              /\ calls' = [AppendResults(calls, c, frame_results)
                              EXCEPT ![c].seen = Append(@, frame),
                                     ![c].overlapped = @ \/ OtherInLoop(c),
                                     ![c].processed_frames = @ + 1,
                                     ![c].frame_nmr = @ + 1]
    /\ UNCHANGED <<instance, textVars, nmsVars, aggVars, videoVars>>

WorkerSampleFrameRaises(c) ==
    /\ calls[c].pc = "loop"
    /\ calls[c].frame_nmr < calls[c].video.delivered
    /\ calls[c].frame_nmr % SampleEvery = 0
    /\ \E frame \in WorkerFrames :
          /\ frame.corrupt
          /\ calls' = [calls EXCEPT ![c].seen = Append(@, frame),
                                    ![c].pc = "cleanup"]
    /\ UNCHANGED <<instance, textVars, nmsVars, aggVars, videoVars>>

WorkerFinish(c) ==
    /\ calls[c].pc = "cleanup"
    /\ \E removed \in BOOLEAN :
          calls' = [calls EXCEPT
                       ![c].file_exists = IF removed THEN FALSE ELSE @,
                       ![c].ret = << ResultRecord(
                                        _post_process_results(calls[c].results),
                                        calls[c].video.total_frames,
                                        calls[c].processed_frames,
                                        Duration(calls[c].video.total_frames,
                                                 calls[c].video.fps)) >>,
                       ![c].pc = "done"]
    /\ UNCHANGED <<instance, textVars, nmsVars, aggVars, videoVars>>

NextWorker ==
    \E c \in Callers :
        \/ WorkerOpen(c)
        \/ WorkerReadEnd(c)
        \/ WorkerSkipFrame(c)
        \/ WorkerSampleFrame(c)
        \/ WorkerSampleFrameRaises(c)
        \/ WorkerFinish(c)

SpecWorker == InitWorker /\ [][NextWorker]_vars

(***************************************************************************)
(* Claims about interleaved calls                                          *)
(***************************************************************************)
\* What process_video returns when it runs alone on video v whose sampled
\* frames are the given ones: the frames are processed in order up to the
\* first on which _process_frame raises.
RECURSIVE AloneResults(_, _, _)
AloneResults(v, frames, k) ==
    IF k > Len(frames) \/ frames[k].corrupt
    THEN <<>>
    ELSE _process_frame(frames[k], SampleEvery * (k - 1),
                        Timestamp(SampleEvery * (k - 1), v.fps))
         \o AloneResults(v, frames, k + 1)

RunAlone(v, frames) ==
    ResultRecord(_post_process_results(AloneResults(v, frames, 1)),
                 v.total_frames,
                 Cardinality({k \in 1..Len(frames) : ~frames[k].corrupt}),
                 Duration(v.total_frames, v.fps))

\* The single call of SpecVideo returns what RunAlone says.
RunAloneIsProcessVideo ==
    ret # <<>> => ret[1] = RunAlone(video, [i \in 1..Len(handed) |-> handed[i].image])

\* C18: the steps of process_video and _process_frame leave the fields of the
\* ANPR instance as __init__ set them, and each of two calls interleaved on
\* the instance returns the plates_detected, processed_frames and
\* confidence_summary it returns when it runs alone on its video.
C18_InterleavedAsAlone ==
    /\ instance = ANPRInstance
    /\ \A c \in DOMAIN calls :
          calls[c].ret # <<>> =>
              LET alone == RunAlone(calls[c].video, calls[c].seen)
              IN  /\ calls[c].ret[1].plates_detected = alone.plates_detected
                  /\ calls[c].ret[1].processed_frames = alone.processed_frames
                  /\ calls[c].ret[1].confidence_summary = alone.confidence_summary

\* Both calls sampled frames while the other was inside its loop, and both
\* returned plates, not the same ones.
C18_Witness ==
    /\ DOMAIN calls = Callers
    /\ \A c \in Callers :
          /\ calls[c].ret # <<>>
          /\ calls[c].overlapped
          /\ calls[c].ret[1].plates_detected # <<>>
    /\ calls[1].ret[1].plates_detected # calls[2].ret[1].plates_detected

====
